---- MODULE Spec2Model ----
(***************************************************************************)
(* GeneratePaths of "Geometric Brownian Motion/GBM_ABM.py": the simulation *)
(* of arithmetic Brownian motion X and geometric Brownian motion S=exp(X). *)
(*                                                                         *)
(* Numbers.  The code computes in IEEE-754 binary floating point (Python   *)
(* float / numpy float64): every operation returns the exact result        *)
(* rounded to the nearest representable number, ties to even, and the     *)
(* special values nan, inf, -inf propagate without raising.  The model     *)
(* keeps that arithmetic and shrinks the format: Precision significand     *)
(* bits instead of 53, a smallest step of 2^-FracBits, overflow to inf at  *)
(* 2^Precision.  A finite float is the integer number of smallest steps    *)
(* it holds; nan, inf and -inf are three integers outside that range.      *)
(***************************************************************************)
EXTENDS Integers, Sequences, FiniteSets

\* Significand bits of the float format (binary64 has 53).
Precision == 10

\* The smallest step of the format is 2^-FracBits.
FracBits == Precision + 3

One == 2 ^ FracBits

\* Finite floats are those of magnitude below 2^Precision.
MaxFinite == (2 ^ Precision) * One

PosInf == 2 * MaxFinite
NegInf == -PosInf
NaN == 3 * MaxFinite

IsFinite(x) == x # NaN /\ x # PosInf /\ x # NegInf
IsNaN(x) == x = NaN

Abs(n) == IF n < 0 THEN -n ELSE n
Sign(n) == IF n < 0 THEN -1 ELSE 1

\* The exponent of a magnitude a (in smallest steps): the least e >= 0 with
\* a < 2^(Precision + e).  Floats with exponent e are multiples of 2^e.
RECURSIVE ExponentOf(_)
ExponentOf(a) == IF a < 2 ^ Precision THEN 0 ELSE 1 + ExponentOf(a \div 2)

\* n/d smallest steps (d > 0) rounded to the nearest float, ties to even;
\* a result out of range is an infinity.
RoundRat(n, d) ==
  LET a == Abs(n)
      e == ExponentOf(a \div d)
      D == d * (2 ^ e)
      q == a \div D
      rem == a % D
      up == (2 * rem > D) \/ (2 * rem = D /\ q % 2 = 1)
      v == (IF up THEN q + 1 ELSE q) * (2 ^ e)
  IN  IF v >= MaxFinite THEN (IF n < 0 THEN NegInf ELSE PosInf)
      ELSE Sign(n) * v

\* s / 2^h smallest steps, plus a little more when sticky, rounded to the
\* nearest float: the rounding of an irrational result.  The last place
\* kept must lie above the last bit of s (h >= 1 or a positive exponent).
RoundSticky(s, h, sticky) ==
  LET e == ExponentOf(s \div (2 ^ h))
      D == (2 ^ h) * (2 ^ e)
      q == s \div D
      rem == s % D
      up == (2 * rem > D) \/ (2 * rem = D /\ (sticky \/ q % 2 = 1))
      v == (IF up THEN q + 1 ELSE q) * (2 ^ e)
  IN  IF v >= MaxFinite THEN PosInf ELSE v

\* A Python literal or integer n/d as a float (float(3), 0.05, 0.4).
FromRat(n, d) == RoundRat(n * One, d)

\* x + y.
FAdd(x, y) ==
  IF IsNaN(x) \/ IsNaN(y) THEN NaN
  ELSE IF ~IsFinite(x) THEN (IF ~IsFinite(y) /\ y # x THEN NaN ELSE x)
  ELSE IF ~IsFinite(y) THEN y
  ELSE RoundRat(x + y, 1)

FNeg(x) == IF IsNaN(x) THEN NaN ELSE -x

\* x - y.
FSub(x, y) == FAdd(x, FNeg(y))

\* The significand and exponent of a finite float: x = Mant(x) * 2^Expo(x).
Expo(x) == ExponentOf(Abs(x))
Mant(x) == x \div (2 ^ Expo(x))

\* m * 2^k smallest steps, rounded (k of either sign).
Scale2(m, k) == IF k >= 0 THEN RoundRat(m * (2 ^ k), 1) ELSE RoundRat(m, 2 ^ (-k))

\* x * y.
FMul(x, y) ==
  IF IsNaN(x) \/ IsNaN(y) THEN NaN
  ELSE IF ~IsFinite(x) \/ ~IsFinite(y) THEN
         (IF x = 0 \/ y = 0 THEN NaN
          ELSE IF (x < 0) = (y < 0) THEN PosInf ELSE NegInf)
  ELSE Scale2(Mant(x) * Mant(y), Expo(x) + Expo(y) - FracBits)

\* numpy's x / y on float64: a zero divisor gives nan or an infinity (and a
\* RuntimeWarning), never an exception.
FDiv(x, y) ==
  IF IsNaN(x) \/ IsNaN(y) THEN NaN
  ELSE IF ~IsFinite(x) THEN
         (IF ~IsFinite(y) THEN NaN
          ELSE IF (x < 0) = (y < 0) THEN PosInf ELSE NegInf)
  ELSE IF ~IsFinite(y) THEN 0
  ELSE IF y = 0 THEN
         (IF x = 0 THEN NaN ELSE IF x > 0 THEN PosInf ELSE NegInf)
  ELSE LET k == Expo(x) - Expo(y) + FracBits
           n == Sign(y) * Mant(x)
           d == Abs(Mant(y))
       IN  IF k >= 0 THEN RoundRat(n * (2 ^ k), d) ELSE RoundRat(n, d * (2 ^ (-k)))

\* The integer square root: the greatest s with s*s <= n.
RECURSIVE ISqrt(_)
ISqrt(n) ==
  IF n < 2 THEN n
  ELSE LET s == 2 * ISqrt(n \div 4)
       IN  IF (s + 1) * (s + 1) <= n THEN s + 1 ELSE s

\* sqrt(x), correctly rounded (np.power(dt, 0.5), and inside np.std);
\* nan for a negative x.
FSqrt(x) ==
  IF IsNaN(x) \/ x = NegInf THEN NaN
  ELSE IF x = PosInf THEN PosInf
  ELSE IF x < 0 THEN NaN
  ELSE IF x <= One
    THEN LET n == 4 * x * One
             s == ISqrt(n)
         IN  RoundSticky(s, 1, s * s # n)
    ELSE LET n == x * One
             s == ISqrt(n)
         IN  RoundSticky(s, 0, s * s # n)

\* log and exp are computed in fixed point with WorkBits fraction bits and
\* then rounded to a float, as a libm computes in extended precision.
WorkBits == Precision + 4
WOne == 2 ^ WorkBits

\* ln 2 in WorkBits fixed point (ln 2 = 726817.5 / 2^20).
Ln2W == (726817 + 2 ^ (19 - WorkBits)) \div (2 ^ (20 - WorkBits))

\* floor(log2 m) for m >= 1.
RECURSIVE Log2Floor(_)
Log2Floor(m) == IF m < 2 THEN 0 ELSE 1 + Log2Floor(m \div 2)

\* sum over n >= j of t^(2n+1) / (2n+1), given pw = t^(2j+1): atanh's series.
RECURSIVE AtanhTail(_, _, _)
AtanhTail(pw, t2, j) ==
  IF pw = 0 THEN 0
  ELSE (pw \div (2 * j + 1)) + AtanhTail((pw * t2) \div WOne, t2, j + 1)

\* np.log(x): -inf at 0 and nan below (with a RuntimeWarning, no exception).
FLog(x) ==
  IF IsNaN(x) \/ x = NegInf THEN NaN
  ELSE IF x = PosInf THEN PosInf
  ELSE IF x < 0 THEN NaN
  ELSE IF x = 0 THEN NegInf
  ELSE LET m == Mant(x)
           b == Log2Floor(m)
           k == b + Expo(x) - FracBits
           t == ((m - 2 ^ b) * WOne) \div (m + 2 ^ b)
           lny == 2 * AtanhTail(t, (t * t) \div WOne, 0)
       IN  RoundRat(k * Ln2W + lny, 2 ^ (WorkBits - FracBits))

\* sum over n >= j of r^n / n!, given term = r^j / j!: exp's series.
RECURSIVE ExpTail(_, _, _)
ExpTail(term, rr, j) ==
  IF term = 0 THEN 0
  ELSE term + ExpTail((term * rr) \div (WOne * (j + 1)), rr, j + 1)

\* np.exp(x).
FExp(x) ==
  IF IsNaN(x) THEN NaN
  ELSE IF x = PosInf THEN PosInf
  ELSE IF x = NegInf THEN 0
  ELSE LET xq == x * (2 ^ (WorkBits - FracBits))
           k == xq \div Ln2W
           er == ExpTail(WOne, xq - k * Ln2W, 0)
       IN  IF k >= Precision THEN PosInf
           ELSE IF k < -(FracBits + 2) THEN 0
           ELSE Scale2(er, k + FracBits - WorkBits)

(***************************************************************************)
(* The arguments, the generator and the arrays.                            *)
(***************************************************************************)

\* The largest NPaths and NSteps a call is made with.
MaxPaths == 2
MaxSteps == 3

\* np.random.seed(72).
Seed == 72

\* The generator's output is a fixed sequence of variates, unknown to the
\* model and of period StreamLen; its state is the position in it.
StreamLen == 5

\* The raw variates the generator may produce.
DrawValues == {FromRat(-1, 2), FromRat(3, 4)}

Half == FromRat(1, 2)

\* The arguments calls are made with.  The driver's T = 1, r = 0.05,
\* sigma = 0.4, S_0 = 100, and sigma = 0, with every valid shape;
ValidArgs ==
  [NPaths : 1 .. MaxPaths, NSteps : 1 .. MaxSteps, T : {FromRat(1, 1)},
   r : {FromRat(5, 100)}, sigma : {0, FromRat(4, 10)}, S_0 : {FromRat(100, 1)}]

\* NPaths or NSteps at or below zero;
BadShapeArgs ==
  {a \in [NPaths : -1 .. MaxPaths, NSteps : -1 .. MaxSteps, T : {FromRat(1, 1)},
          r : {FromRat(5, 100)}, sigma : {FromRat(4, 10)},
          S_0 : {FromRat(100, 1)}] : a.NPaths <= 0 \/ a.NSteps <= 0}

\* S_0 at or below zero.
BadLevelArgs ==
  [NPaths : 1 .. 2, NSteps : {1}, T : {FromRat(1, 1)}, r : {FromRat(5, 100)},
   sigma : {FromRat(4, 10)}, S_0 : {FromRat(-1, 1), 0}]

ArgSet == ValidArgs \cup BadShapeArgs \cup BadLevelArgs

\* The calls made while other code draws from the shared generator.
SharedArgSet ==
  [NPaths : 1 .. 2, NSteps : 1 .. 2, T : {FromRat(1, 1)},
   r : {FromRat(5, 100)}, sigma : {FromRat(4, 10)}, S_0 : {FromRat(100, 1)}]

NoArgs ==
  [NPaths |-> 0, NSteps |-> 0, T |-> 0, r |-> 0, sigma |-> 0, S_0 |-> 0]

VARIABLES
  stream,    \* the generator's output sequence
  rngState,  \* the shared generator's state: the position in stream
  pc,        \* the line GeneratePaths is at; "idle" between calls
  args,      \* NPaths, NSteps, T, r, sigma, S_0 of the call
  Z, X, time, dt, i,   \* the locals of GeneratePaths
  paths,     \* <<the returned bundle>>, or <<>> when nothing was returned
  err,       \* the exception the call raised, or ""
  alloc,     \* the arrays the call has allocated
  drawn,     \* the variates the call has drawn from the generator
  written,   \* the entries of X the call has assigned
  others,    \* the variates other code drew since the last call returned
  ref        \* <<an earlier call's arguments and bundle>>, kept by the caller

vars ==
  <<stream, rngState, pc, args, Z, X, time, dt, i, paths, err, alloc, drawn,
    written, others, ref>>

NPaths == args.NPaths
NSteps == args.NSteps

\* (a seed call that leaves the generator where it is)
np_random_seed_Kept(state, seed) == state

\* np.random.seed(seed): the generator's state becomes the seed's state.
np_random_seed(state, seed) == seed % StreamLen

\* np.random.normal(0.0, 1.0, [n, m]) from generator state `state`: the
\* matrix is filled row by row from the output sequence.
np_random_normal(state, n, m) ==
  [p \in 1 .. n |-> [j \in 0 .. m - 1 |->
     stream[(state + (p - 1) * m + j) % StreamLen]]]

\* np.zeros([n, m]) and np.zeros([m]).
np_zeros2(n, m) == [p \in 1 .. n |-> [j \in 0 .. m - 1 |-> 0]]
np_zeros1(m) == [j \in 0 .. m - 1 |-> 0]

\* M[:, j]
Column(M, j) == [p \in DOMAIN M |-> M[p][j]]

\* The sum of a column, added in index order.
RECURSIVE SumTo(_, _)
SumTo(col, n) == IF n = 1 THEN col[1] ELSE FAdd(SumTo(col, n - 1), col[n])

\* np.mean(col), of a column that is not empty.
np_mean(col) == FDiv(SumTo(col, Len(col)), FromRat(Len(col), 1))

\* np.std(col): sqrt(mean(abs(col - mean(col)) ** 2)).
np_std(col) ==
  LET m == np_mean(col)
      sq == [p \in DOMAIN col |-> FMul(FSub(col[p], m), FSub(col[p], m))]
  IN  FSqrt(np_mean(sq))

\* (col / np.std(col): the mean is not taken off)
Standardize_NoMean(col) ==
  LET sd == np_std(col)
  IN  [p \in DOMAIN col |-> FDiv(col[p], sd)]

\* (col - np.mean(col)) / np.std(col)
Standardize(col) ==
  LET m == np_mean(col)
      sd == np_std(col)
  IN  [p \in DOMAIN col |-> FDiv(FSub(col[p], m), sd)]

\* The column of Z iteration k advances X with (lines 27-28).
CorrectedColumn(k) ==
  IF NPaths > 1 THEN Standardize(Column(Z, k)) ELSE Column(Z, k)

\* (r * dt: the drift without its -0.5 * sigma ** 2)
Drift_NoCorrection == FMul(args.r, dt)

\* (r - 0.5 * sigma ** 2) * dt
Drift == FMul(FSub(args.r, FMul(Half, FMul(args.sigma, args.sigma))), dt)

\* sigma * np.power(dt, 0.5)
Vol == FMul(args.sigma, FSqrt(dt))

\* X[p, k] + (r - 0.5 * sigma ** 2) * dt + sigma * np.power(dt, 0.5) * z
Advance(x, z) == FAdd(FAdd(x, Drift), FMul(Vol, z))

\* (dt, not added to the time before)
TimeStep_NoSum(t) == dt

\* time[k] + dt
TimeStep(t) == FAdd(t, dt)

\* (range(0, n - 1): a loop that stops one step early)
Range_Short(n) == 0 .. n - 2

\* range(0, n)
Range(n) == 0 .. n - 1

\* (X[:, k]: the iteration overwrites the column it reads)
Target_Same(k) == k

\* The column iteration k assigns: X[:, k + 1].
Target(k) == k + 1

Init ==
  /\ stream \in [0 .. StreamLen - 1 -> DrawValues]
  /\ rngState = 0
  /\ pc = "idle"
  /\ args = NoArgs
  /\ Z = <<>> /\ X = <<>> /\ time = <<>> /\ dt = 0 /\ i = 0
  /\ paths = <<>>
  /\ err = ""
  /\ alloc = {}
  /\ drawn = 0
  /\ written = {}
  /\ others = 0
  /\ ref = <<>>

\* GeneratePaths(NPaths, NSteps, T, r, sigma, S_0) is called.
Call(a) ==
  /\ pc = "idle"
  /\ pc' = "L17"
  /\ args' = a
  /\ Z' = <<>> /\ X' = <<>> /\ time' = <<>> /\ dt' = 0 /\ i' = 0
  /\ paths' = <<>> /\ err' = "" /\ alloc' = {} /\ drawn' = 0 /\ written' = {}
  /\ UNCHANGED <<stream, rngState, others, ref>>

\* line 17: np.random.seed(72)
SeedRng ==
  /\ pc = "L17"
  /\ rngState' = np_random_seed(rngState, Seed)
  /\ pc' = "L18"
  /\ UNCHANGED <<stream, args, Z, X, time, dt, i, paths, err, alloc, drawn,
                 written, others, ref>>

\* line 18: Z = np.random.normal(0.0, 1.0, [NPaths, NSteps]); a negative
\* dimension raises ValueError.
DrawZ ==
  /\ pc = "L18"
  /\ IF NPaths < 0 \/ NSteps < 0
       THEN /\ err' = "ValueError"
            /\ pc' = "raised"
            /\ UNCHANGED <<rngState, Z, alloc, drawn>>
       ELSE /\ Z' = np_random_normal(rngState, NPaths, NSteps)
            /\ rngState' = (rngState + NPaths * NSteps) % StreamLen
            /\ alloc' = alloc \cup {"Z"}
            /\ drawn' = drawn + NPaths * NSteps
            /\ pc' = "L19"
            /\ err' = err
  /\ UNCHANGED <<stream, args, X, time, dt, i, paths, written, others, ref>>

\* line 19: X = np.zeros([NPaths, NSteps+1])
AllocX ==
  /\ pc = "L19"
  /\ X' = np_zeros2(NPaths, NSteps + 1)
  /\ alloc' = alloc \cup {"X"}
  /\ pc' = "L20"
  /\ UNCHANGED <<stream, rngState, args, Z, time, dt, i, paths, err, drawn,
                 written, others, ref>>

\* line 20: time = np.zeros([NSteps+1])
AllocTime ==
  /\ pc = "L20"
  /\ time' = np_zeros1(NSteps + 1)
  /\ alloc' = alloc \cup {"time"}
  /\ pc' = "L22"
  /\ UNCHANGED <<stream, rngState, args, Z, X, dt, i, paths, err, drawn,
                 written, others, ref>>

\* line 22: X[:,0] = np.log(S_0)
InitX0 ==
  /\ pc = "L22"
  /\ X' = [p \in DOMAIN X |-> [X[p] EXCEPT ![0] = FLog(args.S_0)]]
  /\ written' = written \cup {<<p, 0>> : p \in DOMAIN X}
  /\ pc' = "L24"
  /\ UNCHANGED <<stream, rngState, args, Z, time, dt, i, paths, err, alloc,
                 drawn, others, ref>>

\* line 24: dt = T / float(NSteps); Python's division by 0.0 raises
\* ZeroDivisionError.
ComputeDt ==
  /\ pc = "L24"
  /\ IF NSteps = 0
       THEN /\ err' = "ZeroDivisionError"
            /\ pc' = "raised"
            /\ dt' = dt
       ELSE /\ dt' = FDiv(args.T, FromRat(NSteps, 1))
            /\ pc' = "L25"
            /\ err' = err
  /\ i' = 0
  /\ UNCHANGED <<stream, rngState, args, Z, X, time, paths, alloc, drawn,
                 written, others, ref>>

\* lines 25-30: one iteration of for i in range(0, NSteps).
LoopIter ==
  /\ pc = "L25"
  /\ i \in Range(NSteps)
  /\ LET zc == CorrectedColumn(i)
     IN  /\ Z' = [p \in DOMAIN Z |-> [Z[p] EXCEPT ![i] = zc[p]]]
         /\ X' = [p \in DOMAIN X |->
                    [X[p] EXCEPT ![Target(i)] = Advance(X[p][i], zc[p])]]
  /\ written' = written \cup {<<p, Target(i)>> : p \in DOMAIN X}
  /\ time' = [time EXCEPT ![i + 1] = TimeStep(time[i])]
  /\ i' = i + 1
  /\ UNCHANGED <<stream, rngState, pc, args, dt, paths, err, alloc, drawn,
                 others, ref>>

\* lines 33-35: the loop is over; S = np.exp(X) and the bundle is returned.
Return ==
  /\ pc = "L25"
  /\ i \notin Range(NSteps)
  /\ paths' = <<[time |-> time, X |-> X,
                 S |-> [p \in DOMAIN X |->
                          [j \in DOMAIN X[p] |-> FExp(X[p][j])]]]>>
  /\ pc' = "done"
  /\ UNCHANGED <<stream, rngState, args, Z, X, time, dt, i, err, alloc, drawn,
                 written, others, ref>>

\* The caller has the bundle or the exception; the call's frame is gone.
Resume ==
  /\ pc \in {"done", "raised"}
  /\ pc' = "idle"
  /\ args' = NoArgs
  /\ Z' = <<>> /\ X' = <<>> /\ time' = <<>> /\ dt' = 0 /\ i' = 0
  /\ paths' = <<>> /\ err' = "" /\ alloc' = {} /\ drawn' = 0 /\ written' = {}
  /\ others' = 0
  /\ UNCHANGED <<stream, rngState, ref>>

\* Other code draws one variate from the shared generator between calls.
OtherDraw ==
  /\ pc = "idle"
  /\ others < StreamLen - 1
  /\ rngState' = (rngState + 1) % StreamLen
  /\ others' = others + 1
  /\ UNCHANGED <<stream, pc, args, Z, X, time, dt, i, paths, err, alloc,
                 drawn, written, ref>>

\* The caller keeps the arguments and the bundle of the call that returned.
Remember ==
  /\ pc = "done"
  /\ ref' = <<[args |-> args, paths |-> paths[1]]>>
  /\ UNCHANGED <<stream, rngState, pc, args, Z, X, time, dt, i, paths, err,
                 alloc, drawn, written, others>>

Step ==
  \/ SeedRng \/ DrawZ \/ AllocX \/ AllocTime \/ InitX0 \/ ComputeDt
  \/ LoopIter \/ Return \/ Resume

Next == (\E a \in ArgSet : Call(a)) \/ Step

Spec == Init /\ [][Next]_vars

NextShared ==
  (\E a \in SharedArgSet : Call(a)) \/ Step \/ OtherDraw \/ Remember

SpecShared == Init /\ [][NextShared]_vars

(***************************************************************************)
(* The claims.                                                             *)
(***************************************************************************)

Finished == pc \in {"done", "raised"}
ValidShape == NPaths >= 1 /\ NSteps >= 1
Cells == {<<p, j>> : p \in 1 .. NPaths, j \in 0 .. NSteps}

\* C1: a call with NSteps <= 0 or NPaths <= 0 ends by raising an error and
\* never returns a result bundle.
C1_BadShapeRejected ==
  (Finished /\ (NPaths <= 0 \/ NSteps <= 0)) => (pc = "raised" /\ paths = <<>>)

\* C2: a call with S_0 <= 0 and a valid shape ends by raising an error and
\* never returns a bundle whose X column 0 is the logarithm of that S_0.
C2_BadLevelRejected ==
  (Finished /\ ValidShape /\ args.S_0 <= 0) => (pc = "raised" /\ paths = <<>>)

\* C3: a call that returns after an earlier call with the same arguments
\* returns the same time, X and S, whatever was drawn from the shared
\* generator in between.
C3_Reproducible ==
  (pc = "done" /\ ref # <<>> /\ ref[1].args = args) => paths[1] = ref[1].paths

\* A call returned after other code drew from the generator, with the
\* arguments of an earlier call whose draws it needs at least two of.
C3_Witness ==
  /\ pc = "done" /\ ref # <<>> /\ ref[1].args = args
  /\ others > 0 /\ NPaths * NSteps >= 2

\* C4: a call with a valid shape returns time of length NSteps+1 and X and
\* S of shape NPaths x (NSteps+1), after exactly NSteps iterations, with
\* every entry of columns 0..NSteps of X assigned.
C4_Shape ==
  (pc = "done" /\ ValidShape) =>
    /\ DOMAIN paths[1].time = 0 .. NSteps
    /\ DOMAIN paths[1].X = 1 .. NPaths
    /\ DOMAIN paths[1].S = 1 .. NPaths
    /\ \A p \in 1 .. NPaths :
         /\ DOMAIN paths[1].X[p] = 0 .. NSteps
         /\ DOMAIN paths[1].S[p] = 0 .. NSteps
    /\ i = NSteps
    /\ written = Cells

\* A call with more than one path and more than one step has returned.
C4_Witness == pc = "done" /\ NPaths >= 2 /\ NSteps >= 2

\* C9: when a call with NPaths <= 0, NSteps <= 0 or S_0 <= 0 ends, it ends
\* with an error, raised before any array was allocated and before any
\* variate was drawn.
C9_ErrorBeforeAllocation ==
  (Finished /\ (NPaths <= 0 \/ NSteps <= 0 \/ args.S_0 <= 0)) =>
    (pc = "raised" /\ alloc = {} /\ drawn = 0)

\* One unit in the last place of a float of the magnitude of x.
Ulp(x) == 2 ^ ExponentOf(Abs(x))

\* C5 as stated: the returned grid has time[0] = 0, time[NSteps] = T,
\* time[j+1] - time[j] = dt = T/NSteps for every j, time[j] = j*dt, and is
\* strictly increasing, all exactly.
C5_ExactGrid ==
  (pc = "done" /\ ValidShape) =>
    LET t == paths[1].time
    IN  /\ t[0] = 0
        /\ t[NSteps] = args.T
        /\ NSteps * dt = args.T
        /\ \A j \in 0 .. NSteps - 1 : t[j + 1] - t[j] = dt /\ t[j] < t[j + 1]
        /\ \A j \in 0 .. NSteps : t[j] = j * dt

\* C5, amended: time[0] = 0, the grid is strictly increasing, and dt, every
\* spacing and every time[j] (time[NSteps] against T among them) are the
\* exact values only up to rounding: dt and each spacing within one unit in
\* the last place of T, time[j] within j units of j*T/NSteps.
C5_GridUpToRounding ==
  (pc = "done" /\ ValidShape) =>
    LET t == paths[1].time
        u == Ulp(args.T)
    IN  /\ t[0] = 0
        /\ Abs(NSteps * dt - args.T) <= NSteps * u
        /\ \A j \in 0 .. NSteps - 1 :
             /\ t[j] < t[j + 1]
             /\ Abs(t[j + 1] - t[j] - dt) <= u
        /\ \A j \in 0 .. NSteps : Abs(NSteps * t[j] - j * args.T) <= NSteps * j * u

\* A grid has been returned whose dt is not exactly T/NSteps.
C5_Witness == pc = "done" /\ ValidShape /\ NSteps * dt # args.T

\* C6 as stated: on return X[p,0] is ln(S_0) and S[p,0] is S_0 in every
\* row p, and no iteration has overwritten column 0 of X.
C6_ExactInitial ==
  (pc \in {"L24", "L25", "done"} /\ ValidShape /\ args.S_0 > 0) =>
    \A p \in 1 .. NPaths :
      /\ X[p][0] = FLog(args.S_0)
      /\ pc = "done" => /\ paths[1].X[p][0] = FLog(args.S_0)
                        /\ paths[1].S[p][0] = args.S_0

\* C6, amended: from its assignment to the return X[p,0] is the float
\* np.log(S_0) in every row, untouched by the loop; the returned S[p,0] is
\* exp of it, which is S_0 only up to rounding (a relative error of about
\* ln(S_0) units in the last place).
C6_InitialUpToRounding ==
  (pc \in {"L24", "L25", "done"} /\ ValidShape /\ args.S_0 > 0) =>
    \A p \in 1 .. NPaths :
      /\ X[p][0] = FLog(args.S_0)
      /\ pc = "done" =>
           /\ paths[1].X[p][0] = FLog(args.S_0)
           /\ Abs(paths[1].S[p][0] - args.S_0) * (2 ^ (Precision - 4)) <= args.S_0

\* A call of several steps has returned an S[1,0] that is not S_0.
C6_Witness ==
  /\ pc = "done" /\ NSteps >= 2 /\ args.S_0 > 0
  /\ paths[1].S[1][0] # args.S_0

\* The loop has completed iterations 0 .. i-1.
InLoop == pc \in {"L25", "done"}

\* The raw draw the call placed in Z[p, k].
RawDraw(p, k) ==
  stream[(np_random_seed(0, Seed) + (p - 1) * NSteps + k) % StreamLen]

\* The raw draws of column k are all the same.
ConstantColumn(k) == \A p \in 1 .. NPaths : RawDraw(p, k) = RawDraw(1, k)

RECURSIVE SumOver(_, _)
\* The exact sum of f[1] .. f[n].
SumOver(f, n) == IF n = 0 THEN 0 ELSE SumOver(f, n - 1) + f[n]

\* The rounding allowed in a corrected column: four units in the last
\* place of 1.0.
Eps == 4 * Ulp(One)

\* C7 as stated: for NPaths > 1 every column the loop has used has mean
\* exactly 0 and standard deviation exactly 1 over the rows, whatever the
\* raw draws; for NPaths = 1 the raw draw is used unchanged.
C7_ExactMoments ==
  (InLoop /\ ValidShape) =>
    \A k \in 0 .. i - 1 :
      IF NPaths > 1
        THEN /\ \A p \in 1 .. NPaths : IsFinite(Z[p][k])
             /\ SumOver([p \in 1 .. NPaths |-> Z[p][k]], NPaths) = 0
             /\ SumOver([p \in 1 .. NPaths |-> Z[p][k] * Z[p][k]], NPaths)
                  = NPaths * One * One
        ELSE Z[1][k] = RawDraw(1, k)

\* C7, amended: for NPaths > 1 a column the loop has used has mean 0 and
\* standard deviation 1 up to rounding when its raw draws are not all the
\* same, and is nan in every row when they are (np.std is 0 and the
\* division is 0/0); for NPaths = 1 the raw draw is used unchanged.
C7_MomentsUpToRounding ==
  (InLoop /\ ValidShape) =>
    \A k \in 0 .. i - 1 :
      IF NPaths = 1 THEN Z[1][k] = RawDraw(1, k)
      ELSE IF ConstantColumn(k) THEN \A p \in 1 .. NPaths : IsNaN(Z[p][k])
      ELSE /\ \A p \in 1 .. NPaths : IsFinite(Z[p][k])
           /\ Abs(SumOver([p \in 1 .. NPaths |-> Z[p][k]], NPaths))
                <= NPaths * Eps
           /\ Abs(SumOver([p \in 1 .. NPaths |-> Z[p][k] * Z[p][k]], NPaths)
                   - NPaths * One * One) <= 2 * NPaths * One * Eps

\* A call with several paths has returned after correcting one column of
\* equal draws and one of different draws.
C7_Witness ==
  /\ pc = "done" /\ NPaths > 1
  /\ \E k \in 0 .. NSteps - 1 : ConstantColumn(k)
  /\ \E k \in 0 .. NSteps - 1 : ~ConstantColumn(k)

\* C8: with sigma = 0 a call returns, having divided by no zero, an X
\* whose rows are all the same and hold ln(S_0) + r*time[j] at every step j
\* (here: up to the rounding of j additions), whatever the draws.
C8_DriftOnly ==
  (pc = "done" /\ ValidShape /\ args.sigma = 0 /\ args.S_0 > 0) =>
    /\ \A p \in 1 .. NPaths : \A k \in 0 .. NSteps - 1 : ~IsNaN(Z[p][k])
    /\ \A p \in 1 .. NPaths : \A j \in 0 .. NSteps :
         LET x == paths[1].X[p][j]
         IN  /\ IsFinite(x)
             /\ x = paths[1].X[1][j]
             /\ Abs(x * One - (paths[1].X[p][0] * One + args.r * paths[1].time[j]))
                  <= (j + 1) * Ulp(x) * One

\* The same, of the calls in which no column of raw draws is constant (the
\* code does what C8 says there).
C8_DriftOnlyIfNoConstantColumn ==
  (\A k \in 0 .. NSteps - 1 : NPaths > 1 => ~ConstantColumn(k)) => C8_DriftOnly

\* The exact sum of Z[p, 0] .. Z[p, j-1].
RECURSIVE SumZ(_, _)
SumZ(p, j) == IF j = 0 THEN 0 ELSE SumZ(p, j - 1) + Z[p][j - 1]

\* Z[p, 0] .. Z[p, j-1] are numbers.
FiniteZ(p, j) == \A k \in 0 .. j - 1 : IsFinite(Z[p][k])

\* The coefficients as line 29 computes them, written out.
DriftCoefficient ==
  FMul(FSub(args.r, FMul(Half, FMul(args.sigma, args.sigma))), dt)
VolCoefficient == FMul(args.sigma, FSqrt(dt))

\* One * (X[p, j] - (X[p, 0] + j * drift + vol * (Z[p, 0] + .. + Z[p, j-1]))),
\* in exact arithmetic.
ClosedFormGap(p, j) ==
  X[p][j] * One
    - (X[p][0] * One + j * DriftCoefficient * One + VolCoefficient * SumZ(p, j))

\* C10 as stated: after iteration k every row has X[p,k+1] equal to
\* X[p,k] + (r - 0.5*sigma^2)*dt + sigma*sqrt(dt)*Z[p,k] with the corrected
\* Z[p,k], and hence X[p,j] = ln(S_0) + j*(r - 0.5*sigma^2)*dt +
\* sigma*sqrt(dt)*(Z[p,0] + .. + Z[p,j-1]), exactly (stated of the rows
\* whose Z are numbers).
C10_ExactClosedForm ==
  (InLoop /\ ValidShape /\ args.S_0 > 0) =>
    \A p \in 1 .. NPaths : \A j \in 0 .. i :
      FiniteZ(p, j) =>
        /\ X[p][0] = FLog(args.S_0)
        /\ ClosedFormGap(p, j) = 0

\* C10, amended, the states.  After iteration k every row has X[p,k+1] equal to the
\* float the expression of line 29 gives from X[p,k] and the corrected
\* Z[p,k] (each sum and product rounded), the columns after i are still zero
\* and an iteration changes no column up to its own; hence X[p,j] is the
\* closed form only up to the rounding of the j steps (two units in the
\* last place of X[p,j] a step), and is nan once a nan Z[p,k] has entered.
C10_StepState ==
  (InLoop /\ ValidShape /\ args.S_0 > 0) =>
    \A p \in 1 .. NPaths :
      /\ X[p][0] = FLog(args.S_0)
      /\ \A k \in 0 .. i - 1 :
           X[p][k + 1] =
             FAdd(FAdd(X[p][k], DriftCoefficient), FMul(VolCoefficient, Z[p][k]))
      /\ \A k \in i + 1 .. NSteps : X[p][k] = 0
      /\ \A j \in 0 .. i :
           IF FiniteZ(p, j)
             THEN /\ IsFinite(X[p][j])
                  /\ Abs(ClosedFormGap(p, j)) <= 2 * j * Ulp(X[p][j]) * One
             ELSE IsNaN(X[p][j])

\* C10, amended, the step: iteration i leaves columns 0 .. i of X as they are.
C10_StepFrame ==
  (pc = "L25" /\ pc' = "L25" /\ i' = i + 1) =>
    \A p \in DOMAIN X : \A j \in 0 .. i : X'[p][j] = X[p][j]

\* C10, amended: the recurrence in floating point holds after every
\* iteration, no iteration changes a column up to its own, and the closed
\* form holds up to rounding.
C10_Recurrence == [](C10_StepState) /\ [][C10_StepFrame]_vars

\* A call with several paths and steps and sigma > 0 has returned an X
\* built from numbers that is not exactly the closed form.
C10_Witness ==
  /\ pc = "done" /\ NPaths > 1 /\ NSteps >= 2 /\ args.sigma > 0 /\ args.S_0 > 0
  /\ \E p \in 1 .. NPaths :
       FiniteZ(p, NSteps) /\ ClosedFormGap(p, NSteps) # 0

====
